---- MODULE Spec2Model ----
(***************************************************************************)
(* Resumable TFRecord reading (tensorboard/data/server/tf_record.rs) and   *)
(* the masked CRC-32C it relies on (masked_crc.rs).                        *)
(*                                                                         *)
(* Machine integers wider than 16 bits are kept as little-endian tuples of *)
(* 16-bit limbs, so u32 and u64 keep their full width: a u32 is <<lo, hi>>,*)
(* a u64 or usize is <<l0, l1, l2, l3>>. Bytes are naturals in 0..255.     *)
(***************************************************************************)
EXTENDS Integers, Sequences, FiniteSets, TLC

\* ------------------------------------------------------------------------
\* Fixed-width arithmetic

\* One 16-bit limb holds the values 0..Limb-1.
Limb == 65536

RECURSIVE XorBits(_, _)
\* Bitwise exclusive or of two naturals, bit by bit.
XorBits(a, b) ==
    IF a = 0 THEN b
    ELSE IF b = 0 THEN a
    ELSE ((a + b) % 2) + 2 * XorBits(a \div 2, b \div 2)

\* u8 ^ u8, tabulated.
XorByte == [a \in 0..255 |-> [b \in 0..255 |-> XorBits(a, b)]]

RECURSIVE Xor(_, _)
\* Bitwise exclusive or of two naturals, byte by byte.
Xor(a, b) ==
    IF a = 0 THEN b
    ELSE IF b = 0 THEN a
    ELSE XorByte[a % 256][b % 256] + 256 * Xor(a \div 256, b \div 256)

\* u32 ^ u32
Xor32(x, y) == <<Xor(x[1], y[1]), Xor(x[2], y[2])>>

\* u32 >> k, for 0 < k < 16
Shr32(x, k) ==
    LET p == 2 ^ k
    IN  <<(x[1] \div p) + (x[2] % p) * (Limb \div p), x[2] \div p>>

\* !u32
Not32(x) == <<(Limb - 1) - x[1], (Limb - 1) - x[2]>>

\* u32::wrapping_add
wrapping_add(x, y) ==
    LET s0 == x[1] + y[1]
        s1 == x[2] + y[2] + (s0 \div Limb)
    IN  <<s0 % Limb, s1 % Limb>>

\* A small natural (below 2^31) as a u64 / usize.
U64(n) == <<n % Limb, n \div Limb, 0, 0>>

\* x < y on u64
Less64(x, y) ==
    \E i \in 1..4 : x[i] < y[i] /\ \A j \in (i + 1)..4 : x[j] = y[j]

\* The mathematical sum of a u64 and a small natural, as five limbs: the
\* fifth limb is the carry out of 64 bits.
Sum64(x, n) ==
    LET s1 == x[1] + n
        s2 == x[2] + (s1 \div Limb)
        s3 == x[3] + (s2 \div Limb)
        s4 == x[4] + (s3 \div Limb)
    IN  <<s1 % Limb, s2 % Limb, s3 % Limb, s4 % Limb, s4 \div Limb>>

\* x - y on u64, for y <= x
Sub64(x, y) ==
    LET d1 == x[1] - y[1]
        b1 == IF d1 < 0 THEN 1 ELSE 0
        d2 == x[2] - y[2] - b1
        b2 == IF d2 < 0 THEN 1 ELSE 0
        d3 == x[3] - y[3] - b2
        b3 == IF d3 < 0 THEN 1 ELSE 0
        d4 == x[4] - y[4] - b3
    IN  <<d1 % Limb, d2 % Limb, d3 % Limb, d4 % Limb>>

\* The smaller of a usize and a small natural, as a natural.
MinNat(x, n) == IF Less64(U64(n), x) THEN n ELSE x[1] + Limb * x[2]

\* ------------------------------------------------------------------------
\* byteorder::LittleEndian

\* LittleEndian::read_u32 of a 4-byte slice
read_u32(buf) == <<buf[1] + 256 * buf[2], buf[3] + 256 * buf[4]>>

\* LittleEndian::read_u64 of an 8-byte slice
read_u64(buf) ==
    <<buf[1] + 256 * buf[2], buf[3] + 256 * buf[4],
      buf[5] + 256 * buf[6], buf[7] + 256 * buf[8]>>

\* ------------------------------------------------------------------------
\* masked_crc.rs

\* The reflected Castagnoli polynomial 0x82f63b78 of crc::crc32.
CASTAGNOLI == <<15224, 33526>>

RECURSIVE table_entry(_, _, _)
\* crc::crc32::make_table: eight shift-and-conditionally-xor rounds.
table_entry(value, poly, rounds) ==
    IF rounds = 0 THEN value
    ELSE table_entry(IF value[1] % 2 = 1
                     THEN Xor32(Shr32(value, 1), poly)
                     ELSE Shr32(value, 1),
                     poly, rounds - 1)

make_table(poly) == [i \in 0..255 |-> table_entry(<<i, 0>>, poly, 8)]

CASTAGNOLI_TABLE == make_table(CASTAGNOLI)

RECURSIVE update_loop(_, _, _, _, _)
\* The loop of crc::crc32::update over bytes[lo..hi], in order: the value
\* after them. The range is walked in two halves, the first of which is
\* worked out (the test on half) before the second is entered, so that long
\* inputs do not nest the evaluation.
update_loop(value, table, bytes, lo, hi) ==
    IF lo > hi THEN value
    ELSE IF lo = hi
    THEN Xor32(table[Xor(value[1] % 256, bytes[lo])], Shr32(value, 8))
    ELSE LET mid  == (lo + hi) \div 2
             half == update_loop(value, table, bytes, lo, mid)
         IN  IF half[1] >= 0
             THEN update_loop(half, table, bytes, mid + 1, hi)
             ELSE half

\* crc::crc32::update
update(value, table, bytes) ==
    Not32(update_loop(Not32(value), table, bytes, 1, Len(bytes)))

\* crc::crc32::checksum_castagnoli
checksum_castagnoli(bytes) == update(<<0, 0>>, CASTAGNOLI_TABLE, bytes)

\* const CRC_MASK_DELTA: u32 = 0xa282ead8
CRC_MASK_DELTA == <<60120, 41602>>

\* (crc >> 15) | (crc << 17): rotate right by 15 bits
rotate_right_15(crc) ==
    <<(crc[2] * 2 + crc[1] \div 32768) % Limb,
      (crc[2] \div 32768) + (crc[1] % 32768) * 2>>

\* u32::saturating_add
saturating_add(x, y) ==
    LET s0 == x[1] + y[1]
        s1 == x[2] + y[2] + (s0 \div Limb)
    IN  IF s1 >= Limb THEN <<Limb - 1, Limb - 1>> ELSE <<s0 % Limb, s1>>

\* Mutant of mask: the constant is added with saturation, not with wraparound.
mask_saturating(crc) == saturating_add(rotate_right_15(crc), CRC_MASK_DELTA)

\* mask: apply the masking operation to an unmasked CRC-32-C
mask(crc) == wrapping_add(rotate_right_15(crc), CRC_MASK_DELTA)

\* MaskedCrc::compute
compute(bytes) == mask(checksum_castagnoli(bytes))

\* ------------------------------------------------------------------------
\* tf_record.rs: constants, state and results

LENGTH_CRC_OFFSET == 8
DATA_OFFSET == LENGTH_CRC_OFFSET + 4
HEADER_LENGTH == DATA_OFFSET
FOOTER_LENGTH == 4

\* TfRecordState::new: an empty header (capacity HEADER_LENGTH, which never
\* changes) and an empty data_plus_footer with no capacity.
new == [header |-> <<>>, data_plus_footer |-> <<>>, capacity |-> U64(0)]

\* What one read_record call gave its caller. Every result has the same
\* fields; those a variant does not carry are empty.
Result(kind, data, data_crc, got, want, length) ==
    [kind |-> kind, data |-> data, data_crc |-> data_crc,
     got |-> got, want |-> want, length |-> length]

\* Ok(TfRecord { data, data_crc })
OkRecord(data, data_crc) == Result("Record", data, data_crc, <<>>, <<>>, <<>>)
\* Err(ReadRecordError::BadLengthCrc(ChecksumError { got, want }))
BadLengthCrc(got, want) == Result("BadLengthCrc", <<>>, <<>>, got, want, <<>>)
\* Err(ReadRecordError::Truncated)
Truncated == Result("Truncated", <<>>, <<>>, <<>>, <<>>, <<>>)
\* Err(ReadRecordError::TooLarge(length))
TooLarge(length) == Result("TooLarge", <<>>, <<>>, <<>>, <<>>, length)
\* Err(ReadRecordError::Io(_))
Io == Result("Io", <<>>, <<>>, <<>>, <<>>, <<>>)
\* The call did not return: it panicked (subtract or add with overflow,
\* capacity overflow, split index out of bounds).
Panic == Result("Panic", <<>>, <<>>, <<>>, <<>>, <<>>)
\* The call did not return: an allocation failed, and handle_alloc_error
\* aborted the process.
Abort == Result("Abort", <<>>, <<>>, <<>>, <<>>, <<>>)
\* The call does not return: read_to_end reads again for as long as the
\* source reports ErrorKind::Interrupted.
Hang == Result("Hang", <<>>, <<>>, <<>>, <<>>, <<>>)
\* Inside read_record: the header phase is over and the payload phase runs.
Continue == Result("Continue", <<>>, <<>>, <<>>, <<>>, <<>>)
\* No call has been made yet.
NoResult == Result("None", <<>>, <<>>, <<>>, <<>>, <<>>)

\* ------------------------------------------------------------------------
\* The byte source: any std::io::Read, such as tests::ScriptedReader, behind
\* Read::take and read_to_end. A reader is [stream, pos, avail, dry]: pos
\* bytes of stream are consumed, and the source yields avail more bytes
\* before it runs dry for this call (the end of a ScriptedReader cursor);
\* dry is what its read() reports from then on, one report per read and the
\* last one for every read after it: "Eof" is Ok(0), "Interrupted" is an
\* Err of ErrorKind::Interrupted, "Error" is an Err of any other kind.
\* Interrupted reports between the avail bytes are retried like the others
\* and change nothing, so they are left out.

\* A source at its end, and the reports a dry source is taken to give.
AtEnd == <<"Eof">>
DryReports ==
    {AtEnd, <<"Error">>, <<"Interrupted", "Eof">>, <<"Interrupted", "Error">>,
     <<"Interrupted">>}

\* The first report read_to_end does not retry: std's default_read_to_end
\* continues its loop on ErrorKind::Interrupted. A source that reports
\* nothing else has no such report.
settled(dry) ==
    LET others == SelectSeq(dry, LAMBDA report : report # "Interrupted")
    IN  IF others = <<>> THEN "Interrupted" ELSE Head(others)

\* reader.take(want).read_to_end(buf): the bytes appended to buf, the reader
\* afterwards, and how the call ends. Take hands out want bytes at most and
\* then reports the end itself, without asking the source. Before that, the
\* loop of read_to_end ends on Ok(0) ("Ok") or on an error other than
\* Interrupted ("Err", which `?` returns); it reads again after Interrupted,
\* so it never ends ("Hang") on a source that reports nothing else.
take_read_to_end(rd, want) ==
    LET k == MinNat(want, rd.avail)
    IN  [bytes   |-> SubSeq(rd.stream, rd.pos + 1, rd.pos + k),
         rd      |-> [rd EXCEPT !.pos = rd.pos + k, !.avail = rd.avail - k],
         outcome |-> IF U64(k) = want \/ settled(rd.dry) = "Eof" THEN "Ok"
                     ELSE IF settled(rd.dry) = "Error" THEN "Err"
                     ELSE "Hang"]

\* Mutant of read_remaining: a short read drops the bytes it obtained.
read_remaining_forgetful(rd, buf, capacity) ==
    LET want == Sub64(capacity, U64(Len(buf)))
        r    == take_read_to_end(rd, want)
        buf2 == buf \o r.bytes
        full == ~Less64(U64(Len(buf2)), capacity)
    IN  [buf    |-> IF full THEN buf2 ELSE buf,
         rd     |-> r.rd,
         want   |-> want,
         result |-> IF r.outcome = "Hang" THEN Hang
                    ELSE IF r.outcome = "Err" THEN Io
                    ELSE IF full THEN Continue ELSE Truncated]

\* Mutant of read_remaining: read_exact in place of read_to_end, so that a
\* dry reader is an UnexpectedEof error.
read_remaining_read_exact(rd, buf, capacity) ==
    LET want == Sub64(capacity, U64(Len(buf)))
        r    == take_read_to_end(rd, want)
        buf2 == buf \o r.bytes
    IN  [buf    |-> buf2,
         rd     |-> r.rd,
         want   |-> want,
         result |-> IF r.outcome = "Hang" THEN Hang
                    ELSE IF Less64(U64(Len(buf2)), capacity) THEN Io
                    ELSE Continue]

\* Mutant of read_remaining: asks for the whole capacity again, not for
\* what is still missing.
read_remaining_asks_all(rd, buf, capacity) ==
    LET r    == take_read_to_end(rd, capacity)
        buf2 == buf \o r.bytes
    IN  [buf    |-> buf2,
         rd     |-> r.rd,
         want   |-> capacity,
         result |-> IF r.outcome = "Hang" THEN Hang
                    ELSE IF r.outcome = "Err" THEN Io
                    ELSE IF Less64(U64(Len(buf2)), capacity) THEN Truncated
                    ELSE Continue]

\* Mutant of read_remaining: a short read leaves the reader where it was, so
\* the next call reads the same bytes again.
read_remaining_rereads(rd, buf, capacity) ==
    LET want == Sub64(capacity, U64(Len(buf)))
        r    == take_read_to_end(rd, want)
        buf2 == buf \o r.bytes
        full == ~Less64(U64(Len(buf2)), capacity)
    IN  [buf    |-> buf2,
         rd     |-> IF full THEN r.rd ELSE rd,
         want   |-> want,
         result |-> IF r.outcome = "Hang" THEN Hang
                    ELSE IF r.outcome = "Err" THEN Io
                    ELSE IF full THEN Continue ELSE Truncated]

\* read_remaining: fill buf's remaining capacity from reader, or fail with
\* Truncated if the reader is dry.
read_remaining(rd, buf, capacity) ==
    LET want == Sub64(capacity, U64(Len(buf)))
        r    == take_read_to_end(rd, want)
        buf2 == buf \o r.bytes
    IN  [buf    |-> buf2,
         rd     |-> r.rd,
         want   |-> want,
         result |-> IF r.outcome = "Hang" THEN Hang
                    ELSE IF r.outcome = "Err" THEN Io
                    ELSE IF Less64(U64(Len(buf2)), capacity) THEN Truncated
                    ELSE Continue]

\* ------------------------------------------------------------------------
\* TfRecordState::read_record

\* `as usize` of a u64: the low usize_bits bits.
as_usize(x, build) == IF build.usize_bits = 64 THEN x ELSE <<x[1], x[2], 0, 0>>

\* isize::MAX < x, for a usize x
exceeds_isize_max(x, build) ==
    IF build.usize_bits = 64 THEN x[4] >= 32768 ELSE x[2] >= 32768

\* The allocations one read_record call makes: the growth of
\* data_plus_footer in reserve_exact (line 173), the vector split_off
\* returns (line 181), and, in a call that panics, those of the panic
\* itself (its message and its boxed payload). Whether the allocator
\* satisfies a request depends on the machine and on the moment, so every
\* call is told which of its allocations fails, if it gets as far as making
\* it: "None" when the allocator satisfies all. The first failure is the
\* only one, since it aborts the process.
Allocations == {"None", "reserve_exact", "split_off", "panic"}

\* How a panic ends the call: the unwinding panic itself, or an abort of the
\* process (handle_alloc_error) when the allocator fails what the panic
\* allocates.
panics(alloc_fails) == IF alloc_fails = "panic" THEN Abort ELSE Panic

\* Vec::reserve_exact(additional) on a vector of length len. With enough
\* spare capacity nothing happens. Otherwise the vector grows to exactly
\* len + additional: a panic ("capacity overflow") when that exceeds
\* isize::MAX, which is an abort when the allocator fails what the panic
\* allocates; an abort of the process (handle_alloc_error) when the
\* allocator fails the request; and the new capacity when it does not.
reserve_exact(capacity, len, additional, build, alloc_fails) ==
    LET needed == Sum64(additional, len)
        grown  == <<needed[1], needed[2], needed[3], needed[4]>>
    IN  IF ~Less64(Sub64(capacity, U64(len)), additional)
        THEN [capacity |-> capacity, panicked |-> FALSE, aborted |-> FALSE]
        ELSE IF needed[5] > 0 \/ grown # as_usize(grown, build)
                \/ exceeds_isize_max(grown, build)
        THEN [capacity |-> capacity, panicked |-> panics(alloc_fails) = Panic,
              aborted |-> panics(alloc_fails) = Abort]
        ELSE IF alloc_fails = "reserve_exact"
        THEN [capacity |-> capacity, panicked |-> FALSE, aborted |-> TRUE]
        ELSE [capacity |-> grown, panicked |-> FALSE, aborted |-> FALSE]

\* Mutant of check_header: got and want of BadLengthCrc exchanged.
check_header_swapped(st, build, alloc_fails) ==
    LET length_buf     == SubSeq(st.header, 1, LENGTH_CRC_OFFSET)
        length_crc_buf == SubSeq(st.header, LENGTH_CRC_OFFSET + 1, HEADER_LENGTH)
        length_crc     == read_u32(length_crc_buf)
        actual_crc     == compute(length_buf)
        length         == read_u64(length_buf)
        sum            == Sum64(length, FOOTER_LENGTH)
        data_plus_footer_length_u64 == <<sum[1], sum[2], sum[3], sum[4]>>
        data_plus_footer_length == as_usize(data_plus_footer_length_u64, build)
        reserved == reserve_exact(st.capacity, Len(st.data_plus_footer),
                                  data_plus_footer_length, build, alloc_fails)
    IN  IF length_crc # actual_crc
        THEN [st |-> st, result |-> BadLengthCrc(length_crc, actual_crc)]
        ELSE IF sum[5] > 0 /\ build.overflow_checks
        THEN [st |-> st, result |-> panics(alloc_fails)]
        ELSE IF data_plus_footer_length # data_plus_footer_length_u64
        THEN [st |-> st, result |-> TooLarge(length)]
        ELSE IF reserved.panicked
        THEN [st |-> st, result |-> panics(alloc_fails)]
        ELSE IF reserved.aborted
        THEN [st |-> st, result |-> Abort]
        ELSE [st |-> [st EXCEPT !.capacity = reserved.capacity],
              result |-> Continue]

\* Mutant of check_header: the payload capacity is reserved before the length
\* checksum is compared.
check_header_reserves_first(st, build, alloc_fails) ==
    LET length_buf     == SubSeq(st.header, 1, LENGTH_CRC_OFFSET)
        length_crc_buf == SubSeq(st.header, LENGTH_CRC_OFFSET + 1, HEADER_LENGTH)
        length_crc     == read_u32(length_crc_buf)
        actual_crc     == compute(length_buf)
        length         == read_u64(length_buf)
        sum            == Sum64(length, FOOTER_LENGTH)
        data_plus_footer_length_u64 == <<sum[1], sum[2], sum[3], sum[4]>>
        data_plus_footer_length == as_usize(data_plus_footer_length_u64, build)
        reserved == reserve_exact(st.capacity, Len(st.data_plus_footer),
                                  data_plus_footer_length, build, alloc_fails)
        st2      == [st EXCEPT !.capacity = reserved.capacity]
    IN  IF sum[5] > 0 /\ build.overflow_checks
        THEN [st |-> st, result |-> panics(alloc_fails)]
        ELSE IF data_plus_footer_length # data_plus_footer_length_u64
        THEN [st |-> st, result |-> TooLarge(length)]
        ELSE IF reserved.panicked
        THEN [st |-> st, result |-> panics(alloc_fails)]
        ELSE IF reserved.aborted
        THEN [st |-> st, result |-> Abort]
        ELSE IF length_crc # actual_crc
        THEN [st |-> st2, result |-> BadLengthCrc(actual_crc, length_crc)]
        ELSE [st |-> st2, result |-> Continue]

\* Lines 157-173: the header is complete; check it and size the payload.
check_header(st, build, alloc_fails) ==
    LET length_buf     == SubSeq(st.header, 1, LENGTH_CRC_OFFSET)
        length_crc_buf == SubSeq(st.header, LENGTH_CRC_OFFSET + 1, HEADER_LENGTH)
        length_crc     == read_u32(length_crc_buf)
        actual_crc     == compute(length_buf)
        length         == read_u64(length_buf)
        sum            == Sum64(length, FOOTER_LENGTH)
        data_plus_footer_length_u64 == <<sum[1], sum[2], sum[3], sum[4]>>
        data_plus_footer_length == as_usize(data_plus_footer_length_u64, build)
        reserved == reserve_exact(st.capacity, Len(st.data_plus_footer),
                                  data_plus_footer_length, build, alloc_fails)
    IN  IF length_crc # actual_crc
        THEN [st |-> st, result |-> BadLengthCrc(actual_crc, length_crc)]
        ELSE IF sum[5] > 0 /\ build.overflow_checks
        THEN [st |-> st, result |-> panics(alloc_fails)]
        ELSE IF data_plus_footer_length # data_plus_footer_length_u64
        THEN [st |-> st, result |-> TooLarge(length)]
        ELSE IF reserved.panicked
        THEN [st |-> st, result |-> panics(alloc_fails)]
        ELSE IF reserved.aborted
        THEN [st |-> st, result |-> Abort]
        ELSE [st |-> [st EXCEPT !.capacity = reserved.capacity],
              result |-> Continue]

\* Lines 154-174: fill the header, then check it.
header_phase(st, rd, build, alloc_fails) ==
    LET r   == read_remaining(rd, st.header, U64(HEADER_LENGTH))
        st2 == [st EXCEPT !.header = r.buf]
        c   == check_header(st2, build, alloc_fails)
    IN  IF r.result # Continue
        THEN [st |-> st2, rd |-> r.rd, result |-> r.result, wants |-> <<r.want>>]
        ELSE [st |-> c.st, rd |-> r.rd, result |-> c.result, wants |-> <<r.want>>]

\* Mutant of finish_record: header.clear() left out.
finish_record_keeps_header(st, alloc_fails) ==
    LET len          == Len(st.data_plus_footer)
        data_length  == len - FOOTER_LENGTH
        data_crc_buf == SubSeq(st.data_plus_footer, data_length + 1, len)
        data         == SubSeq(st.data_plus_footer, 1, data_length)
    IN  IF len < FOOTER_LENGTH
        THEN [st |-> st, result |-> panics(alloc_fails)]
        ELSE IF alloc_fails = "split_off"
        THEN [st |-> st, result |-> Abort]
        ELSE [st |-> [header |-> st.header, data_plus_footer |-> <<>>,
                      capacity |-> U64(0)],
              result |-> OkRecord(data, read_u32(data_crc_buf))]

\* Mutant of finish_record: the data is copied out and the buffer cleared,
\* so data_plus_footer keeps its capacity.
finish_record_keeps_capacity(st, alloc_fails) ==
    LET len          == Len(st.data_plus_footer)
        data_length  == len - FOOTER_LENGTH
        data_crc_buf == SubSeq(st.data_plus_footer, data_length + 1, len)
        data         == SubSeq(st.data_plus_footer, 1, data_length)
    IN  IF len < FOOTER_LENGTH
        THEN [st |-> st, result |-> panics(alloc_fails)]
        ELSE IF alloc_fails = "split_off"
        THEN [st |-> st, result |-> Abort]
        ELSE [st |-> [header |-> <<>>, data_plus_footer |-> <<>>,
                      capacity |-> st.capacity],
              result |-> OkRecord(data, read_u32(data_crc_buf))]

\* Mutant of finish_record: the checksum is taken from the front of the
\* buffer and the data from what follows it.
finish_record_footer_first(st, alloc_fails) ==
    LET len          == Len(st.data_plus_footer)
        data_crc_buf == SubSeq(st.data_plus_footer, 1, FOOTER_LENGTH)
        data         == SubSeq(st.data_plus_footer, FOOTER_LENGTH + 1, len)
    IN  IF len < FOOTER_LENGTH
        THEN [st |-> st, result |-> panics(alloc_fails)]
        ELSE IF alloc_fails = "split_off"
        THEN [st |-> st, result |-> Abort]
        ELSE [st |-> [header |-> <<>>, data_plus_footer |-> <<>>,
                      capacity |-> U64(0)],
              result |-> OkRecord(data, read_u32(data_crc_buf))]

\* Lines 180-185: split the footer off, hand the data over, reset the state.
\* split_off allocates the vector it returns (FOOTER_LENGTH bytes, or the
\* whole capacity when the data is empty), which aborts the process when the
\* allocator fails it; mem::take and clear allocate nothing.
finish_record(st, alloc_fails) ==
    LET len          == Len(st.data_plus_footer)
        data_length  == len - FOOTER_LENGTH
        data_crc_buf == SubSeq(st.data_plus_footer, data_length + 1, len)
        data         == SubSeq(st.data_plus_footer, 1, data_length)
    IN  IF len < FOOTER_LENGTH
        THEN [st |-> st, result |-> panics(alloc_fails)]
        ELSE IF alloc_fails = "split_off"
        THEN [st |-> st, result |-> Abort]
        ELSE [st |-> [header |-> <<>>, data_plus_footer |-> <<>>,
                      capacity |-> U64(0)],
              result |-> OkRecord(data, read_u32(data_crc_buf))]

\* Lines 176-185: fill data_plus_footer, then finish the record.
payload_phase(st, rd, wants, alloc_fails) ==
    LET r   == read_remaining(rd, st.data_plus_footer, st.capacity)
        st2 == [st EXCEPT !.data_plus_footer = r.buf]
        now == IF r.result = Continue THEN finish_record(st2, alloc_fails)
               ELSE [st |-> st2, result |-> r.result]
        dry == finish_record(st, alloc_fails)
    IN  IF Less64(U64(Len(st.data_plus_footer)), st.capacity)
        THEN [st |-> now.st, rd |-> r.rd, result |-> now.result,
              wants |-> Append(wants, r.want)]
        ELSE [st |-> dry.st, rd |-> rd, result |-> dry.result, wants |-> wants]

\* Mutant of read_record: the call that completes the header returns
\* Truncated and leaves the payload to the next call.
read_record_stops_after_header(st, rd, build, alloc_fails) ==
    LET h == header_phase(st, rd, build, alloc_fails)
    IN  IF Len(st.header) < HEADER_LENGTH
        THEN IF h.result = Continue
             THEN [h EXCEPT !.result = Truncated]
             ELSE h
        ELSE payload_phase(st, rd, <<>>, alloc_fails)

\* read_record(&mut self, reader): the state and the reader afterwards, the
\* result, and the sizes asked of the reader, in order.
read_record(st, rd, build, alloc_fails) ==
    LET h == header_phase(st, rd, build, alloc_fails)
    IN  IF Len(st.header) < HEADER_LENGTH
        THEN IF h.result = Continue
             THEN payload_phase(h.st, h.rd, h.wants, alloc_fails)
             ELSE h
        ELSE payload_phase(st, rd, <<>>, alloc_fails)

\* Ok(()) and Err(ChecksumError { got, want }) of checksum(), and the mark of
\* a record checksum() was not yet called on.
ChecksumOk == [kind |-> "Ok", got |-> <<>>, want |-> <<>>]
ChecksumError(got, want) == [kind |-> "ChecksumError", got |-> got, want |-> want]
Unchecked == [kind |-> "None", got |-> <<>>, want |-> <<>>]

\* Mutant of checksum: got and want of ChecksumError exchanged.
checksum_swapped(rec) ==
    LET got  == compute(rec.data)
        want == rec.data_crc
    IN  [rec    |-> rec,
         result |-> IF got = want THEN ChecksumOk ELSE ChecksumError(want, got)]

\* Mutant of checksum: a mismatch overwrites the expected checksum with the
\* computed one.
checksum_repairs(rec) ==
    LET got  == compute(rec.data)
        want == rec.data_crc
    IN  [rec    |-> [rec EXCEPT !.data_crc = got],
         result |-> IF got = want THEN ChecksumOk ELSE ChecksumError(got, want)]

\* TfRecord::checksum(&self): the record after the call and what it returned.
checksum(rec) ==
    LET got  == compute(rec.data)
        want == rec.data_crc
    IN  [rec    |-> rec,
         result |-> IF got = want THEN ChecksumOk ELSE ChecksumError(got, want)]

\* ------------------------------------------------------------------------
\* Streams: the byte sequences a reader is given

\* Longest payload of a written record, and most records in one stream.
MaxLen == 1
MaxRecords == 2

\* u32 / u64 to_le_bytes, as the writer of the format stores them.
le_bytes32(x) == <<x[1] % 256, x[1] \div 256, x[2] % 256, x[2] \div 256>>
le_bytes64(x) ==
    <<x[1] % 256, x[1] \div 256, x[2] % 256, x[2] \div 256,
      x[3] % 256, x[3] \div 256, x[4] % 256, x[4] \div 256>>

\* "uint64 length, uint32 masked crc of length": a header whose checksum
\* matches its length field.
frame_header(length) ==
    le_bytes64(length) \o le_bytes32(compute(le_bytes64(length)))

\* "uint64 length, uint32 masked crc of length, byte data[length], uint32
\* masked crc of data": one well-formed record.
record(data) ==
    frame_header(U64(Len(data))) \o data \o le_bytes32(compute(data))

\* bytes with the lowest bit of byte i flipped.
corrupt(bytes, i) == [bytes EXCEPT ![i] = Xor(@, 1)]

PayloadByte == 97
Payloads == UNION {[1..n -> {PayloadByte}] : n \in 0..MaxLen}
LongestPayload == [i \in 1..MaxLen |-> PayloadByte]

GoodRecords == {record(p) : p \in Payloads}

\* Valid header, but the first byte after it or the last byte of the
\* footer is not what was written.
BadDataRecords ==
    {corrupt(record(LongestPayload), i) :
        i \in {HEADER_LENGTH + 1, HEADER_LENGTH + MaxLen + FOOTER_LENGTH}}

\* A bit of the length field or of its stored checksum flipped.
BadHeaderRecords ==
    {corrupt(record(LongestPayload), i) : i \in {1, LENGTH_CRC_OFFSET + 1}}

\* Length fields no stream of this size can satisfy, each under a matching
\* checksum and followed by a few bytes: 2^32 - 4, 2^64 - 5, 2^64 - 4 and
\* 2^64 - 1.
HugeLengths ==
    { <<65532, 65535, 0, 0>>, <<65531, 65535, 65535, 65535>>,
      <<65532, 65535, 65535, 65535>>, <<65535, 65535, 65535, 65535>> }
HugeRecords ==
    {frame_header(l) \o [i \in 1..FOOTER_LENGTH |-> PayloadByte] : l \in HugeLengths}

\* What a stream may end with, and what may come before that.
Items == GoodRecords \cup BadDataRecords \cup BadHeaderRecords \cup HugeRecords
Leading ==
    {record(LongestPayload), corrupt(record(LongestPayload), HEADER_LENGTH + 1)}

RECURSIVE flatten(_)
flatten(items) ==
    IF items = <<>> THEN <<>> ELSE Head(items) \o flatten(Tail(items))

\* Up to MaxRecords items; only the last may be one read_record rejects.
Scripts ==
    {<<>>} \cup
    UNION {{Append(s, x) : s \in [1..n -> Leading], x \in Items} :
              n \in 0..(MaxRecords - 1)}

\* The builds of the crate: the width of usize, and whether integer
\* overflow is checked (debug) or wraps (release). They differ only on
\* length fields of 2^31 and more, so a script without one runs as the
\* 64-bit debug build alone.
Builds == [usize_bits : {32, 64}, overflow_checks : BOOLEAN]
BuildsFor(script) ==
    IF script # <<>> /\ script[Len(script)] \in HugeRecords
    THEN Builds
    ELSE {[usize_bits |-> 64, overflow_checks |-> TRUE]}

\* ------------------------------------------------------------------------
\* The state machine

VARIABLES
    build,              \* the build the program runs as
    written,            \* the items the stream was written from
    stream,             \* the bytes of the source, in order
    pos,                \* how many of them the reader has handed out
    header,             \* TfRecordState.header
    data_plus_footer,   \* TfRecordState.data_plus_footer
    capacity,           \* data_plus_footer.capacity()
    last,               \* what the latest read_record call returned
    returned,           \* the records returned so far, in order
    checked,            \* the latest checksum() result for each of them
    instances,          \* two states with a source each, when two are driven
    masking             \* a raw CRC and what mask makes of it, when one is masked

vars == <<build, written, stream, pos, header, data_plus_footer, capacity,
          last, returned, checked, instances, masking>>

\* The TfRecordState and, for a call that finds avail bytes, the reader.
state == [header |-> header, data_plus_footer |-> data_plus_footer,
          capacity |-> capacity]
reader(avail, dry) ==
    [stream |-> stream, pos |-> pos, avail |-> avail, dry |-> dry]

\* A panic, an abort and a call that does not return each end the program.
ended == last.result.kind \in {"Panic", "Abort", "Hang"}

\* A call starts at a record boundary when both buffers are empty.
at_boundary == header = <<>> /\ data_plus_footer = <<>>

Init ==
    /\ written \in Scripts
    /\ build \in BuildsFor(written)
    /\ stream = flatten(written)
    /\ pos = 0
    /\ header = new.header
    /\ data_plus_footer = new.data_plus_footer
    /\ capacity = new.capacity
    /\ last = [result |-> NoResult, resumed |-> FALSE]
    /\ returned = <<>>
    /\ checked = <<>>
    /\ instances = <<>>
    /\ masking = <<>>

\* What a call meets besides the bytes it is given: the reports of the dry
\* source and the allocation that fails. A call ends at the first of the two
\* it runs into, and it runs into one of them at most: reserve_exact comes
\* after a header read that was satisfied and before the payload read,
\* split_off after a payload read that was satisfied, and a panic after
\* reads that were satisfied or skipped, while a read that was satisfied has
\* not asked the dry source. So a call that is given both
\* ends as the call given one of them does; and a source whose first
\* reports are Interrupted gives the call that the source without them
\* gives (settled).
Hazards ==
    {[dry |-> d, alloc_fails |-> "None"] :
        d \in {AtEnd, <<"Error">>, <<"Interrupted">>}}
        \cup {[dry |-> AtEnd, alloc_fails |-> a] : a \in Allocations}

\* The bytes a call takes from a source that holds the rest of the stream.
\* A source that holds more than that gives the same call: Read::take keeps
\* the surplus out of its sight.
most ==
    read_record(state, reader(Len(stream) - pos, AtEnd), build, "None").rd.pos - pos

\* Mutant of ReadRecord: data_plus_footer is handed out without being
\* replaced, so the record returned last shows what later calls put into it.
ReadRecord_shares_buffer ==
    /\ ~ended
    /\ \E avail \in 0..most, hazard \in Hazards :
          \E r \in {read_record(state, reader(avail, hazard.dry), build,
                                 hazard.alloc_fails)} :
              LET shared == IF returned = <<>> THEN returned
                            ELSE [returned EXCEPT ![Len(returned)].data =
                                      r.st.data_plus_footer]
              IN  /\ header' = r.st.header
                  /\ data_plus_footer' = r.st.data_plus_footer
                  /\ capacity' = r.st.capacity
                  /\ pos' = r.rd.pos
                  /\ last' = [result |-> r.result, resumed |-> ~at_boundary]
                  /\ IF r.result.kind = "Record"
                     THEN /\ returned' = Append(shared,
                                  [data |-> r.result.data, data_crc |-> r.result.data_crc])
                          /\ checked' = Append(checked, Unchecked)
                     ELSE /\ returned' = shared
                          /\ checked' = checked
    /\ UNCHANGED <<build, written, stream, instances, masking>>

\* One call st.read_record(&mut reader), on a source that yields avail bytes
\* and then reports hazard.dry, with an allocator that fails
\* hazard.alloc_fails.
ReadRecord ==
    /\ ~ended
    /\ \E avail \in 0..most, hazard \in Hazards :
          \E r \in {read_record(state, reader(avail, hazard.dry), build,
                                 hazard.alloc_fails)} :
              /\ header' = r.st.header
              /\ data_plus_footer' = r.st.data_plus_footer
              /\ capacity' = r.st.capacity
              /\ pos' = r.rd.pos
              /\ last' = [result |-> r.result, resumed |-> ~at_boundary]
              /\ IF r.result.kind = "Record"
                 THEN /\ returned' = Append(returned,
                              [data |-> r.result.data, data_crc |-> r.result.data_crc])
                      /\ checked' = Append(checked, Unchecked)
                 ELSE UNCHANGED <<returned, checked>>
    /\ UNCHANGED <<build, written, stream, instances, masking>>

\* One call record.checksum() on a record returned earlier.
Checksum ==
    /\ ~ended
    /\ \E i \in 1..Len(returned) :
          \E c \in {checksum(returned[i])} :
              /\ returned' = [returned EXCEPT ![i] = c.rec]
              /\ checked' = [checked EXCEPT ![i] = c.result]
    /\ UNCHANGED <<build, written, stream, pos, header, data_plus_footer,
                   capacity, last, instances, masking>>

Next == ReadRecord \/ Checksum

Spec == Init /\ [][Next]_vars

\* ------------------------------------------------------------------------
\* What the stream holds, read off the written items

\* Item i starts after ItemStart(i) bytes of the stream and ends after
\* ItemEnd(i).
ItemStart(i) == Len(flatten(SubSeq(written, 1, i - 1)))
ItemEnd(i) == ItemStart(i) + Len(written[i])

HeaderOf(w) == SubSeq(w, 1, HEADER_LENGTH)
LengthBytes(w) == SubSeq(w, 1, LENGTH_CRC_OFFSET)
StoredLengthCrc(w) == read_u32(SubSeq(w, LENGTH_CRC_OFFSET + 1, HEADER_LENGTH))
HeaderValid(w) == StoredLengthCrc(w) = compute(LengthBytes(w))

\* The item is a header with a matching checksum, as many payload bytes as
\* its length field says, and four more bytes.
Framed(w) ==
    /\ Len(w) >= HEADER_LENGTH + FOOTER_LENGTH
    /\ HeaderValid(w)
    /\ read_u64(LengthBytes(w)) = U64(Len(w) - HEADER_LENGTH - FOOTER_LENGTH)
StoredPayload(w) == SubSeq(w, HEADER_LENGTH + 1, Len(w) - FOOTER_LENGTH)
StoredDataCrc(w) == read_u32(SubSeq(w, Len(w) - FOOTER_LENGTH + 1, Len(w)))

\* A well-formed record: framed, and the trailing checksum is that of the
\* payload.
WellFormed(w) == Framed(w) /\ StoredDataCrc(w) = compute(StoredPayload(w))
AllWellFormed == \A i \in 1..Len(written) : WellFormed(written[i])

\* length + 4 is a value of usize in this build.
FitsUsize(length) ==
    LET sum == Sum64(length, FOOTER_LENGTH)
    IN  sum[5] = 0 /\ (build.usize_bits = 64 \/ (sum[3] = 0 /\ sum[4] = 0))

\* What read_record returns for the whole of w at once, on a fresh state.
WholeRead(w) ==
    read_record(new, [stream |-> w, pos |-> 0, avail |-> Len(w), dry |-> AtEnd],
                build, "None").result

\* What the next call would ask of the source first, were it made now.
NextWants == read_record(state, reader(0, AtEnd), build, "None").wants

\* The step is a read_record call that returned Truncated.
TruncatedCall ==
    /\ last'.result = Truncated
    /\ returned' = returned /\ checked' = checked
    /\ <<pos, header, data_plus_footer, capacity, last>>' #
       <<pos, header, data_plus_footer, capacity, last>>

\* The step is the read_record call that takes the last byte of the header
\* of item i.
CompletesHeader(i) ==
    /\ pos < ItemStart(i) + HEADER_LENGTH
    /\ pos' >= ItemStart(i) + HEADER_LENGTH

\* ------------------------------------------------------------------------
\* Claims

\* C1: while a well-formed record is being read, whatever part of it the
\* calls so far have taken and however they ended, a call on a source that
\* yields a chunk and then ends returns Truncated, having taken the chunk,
\* for every chunk that stops short of the record's last byte, and for the
\* chunk that reaches it returns the record a single call on a fresh state
\* returns for the whole buffer. Every split of the record into chunks is a
\* path of such calls, so each call before the final one returns Truncated
\* and the final one the whole read's record, which is then the first
\* record returned.
C1_SplitReadEqualsWholeRead ==
    (written # <<>> /\ WellFormed(written[1]) /\ ~ended) =>
        /\ pos < ItemEnd(1) =>
              \A avail \in 0..(ItemEnd(1) - pos) :
                  \A r \in {read_record(state, reader(avail, AtEnd), build, "None")} :
                      IF avail < ItemEnd(1) - pos
                      THEN /\ r.result = Truncated
                           /\ r.rd.pos = pos + avail
                      ELSE /\ r.result.kind = "Record"
                           /\ r.result = WholeRead(written[1])
                           /\ r.rd.pos = ItemEnd(1)
        /\ pos >= ItemEnd(1)
               => /\ returned # <<>>
                  /\ OkRecord(returned[1].data, returned[1].data_crc)
                         = WholeRead(written[1])
        /\ (pos = ItemEnd(1) /\ Len(returned) = 1 /\ last.result.kind = "Record")
               => last.result = WholeRead(written[1])

\* C1 witness: the first record came back from a call that resumed it.
C1_Witness ==
    /\ written # <<>> /\ WellFormed(written[1])
    /\ pos = ItemEnd(1) /\ Len(returned) = 1
    /\ last.result.kind = "Record" /\ last.resumed
    /\ last.result.data # <<>>

\* A call ends otherwise than by a result of its own only through what it is
\* given: Io when the source reports an error other than Interrupted, no
\* return when it reports nothing but Interrupted, an abort when the
\* allocator fails reserve_exact or split_off.
OnlyByItsHazard(hazard, r) ==
    /\ r.result = Io => settled(hazard.dry) = "Error"
    /\ r.result = Hang => settled(hazard.dry) = "Interrupted"
    /\ r.result = Abort => hazard.alloc_fails \in {"reserve_exact", "split_off"}

\* C2: over a stream of well-formed records under any chunking, the records
\* returned are exactly the written ones that are wholly consumed, in order.
\* From every state reached, a call on a source that yields some of the
\* bytes a call can take (most) and then ends returns the next written
\* record when the bytes reach its end, and Truncated otherwise, so also
\* when every byte is consumed: between records such calls return only
\* Truncated. A call ends in anything else (Io, no return, an abort) only
\* when its source reports an error, or Interrupted without end, or its
\* allocator fails.
C2_RecordsInStreamOrder ==
    (AllWellFormed /\ ~ended) =>
        /\ Len(returned)
               = Cardinality({i \in 1..Len(written) : ItemEnd(i) <= pos})
        /\ \A i \in 1..Len(returned) :
              /\ returned[i].data = StoredPayload(written[i])
              /\ returned[i].data_crc = StoredDataCrc(written[i])
        /\ pos = Len(stream) => Len(returned) = Len(written)
        /\ \A avail \in 0..most, hazard \in Hazards :
              \A r \in {read_record(state, reader(avail, hazard.dry), build,
                                     hazard.alloc_fails)} :
                  LET next == Len(returned) + 1
                  IN  /\ r.result.kind \in
                             {"Record", "Truncated", "Io", "Hang", "Abort"}
                      /\ OnlyByItsHazard(hazard, r)
                      /\ (hazard.dry = AtEnd /\ hazard.alloc_fails = "None") =>
                             IF next <= Len(written) /\ pos + avail >= ItemEnd(next)
                             THEN /\ r.result =
                                        OkRecord(StoredPayload(written[next]),
                                                 StoredDataCrc(written[next]))
                                  /\ r.rd.pos = ItemEnd(next)
                             ELSE /\ r.result = Truncated
                                  /\ r.rd.pos = pos + avail

\* C2 witness: two different records were returned in order, nothing is
\* left in the stream, and one more call has returned Truncated.
C2_Witness ==
    /\ AllWellFormed /\ Len(written) = 2
    /\ Len(returned) = 2 /\ returned[1] # returned[2]
    /\ pos = Len(stream)
    /\ last.result = Truncated

\* C3: at a record boundary a call that gets no byte from the source returns
\* Truncated and leaves the state as it was; so a state that is at a
\* boundary after a call which returned no record shows Truncated, never
\* another error and never a record. A source that yields no byte is one
\* whose read gives Ok(0), at once or after reads that were interrupted; a
\* source that reports an error instead gives Io, and one that reports
\* nothing but Interrupted keeps the call from returning.
C3_EmptyReadIsTruncated ==
    at_boundary =>
        /\ \A dry \in DryReports, alloc_fails \in Allocations :
               settled(dry) = "Eof" =>
                   \A r \in {read_record(state, reader(0, dry), build, alloc_fails)} :
                       r.result = Truncated /\ r.st = state
        /\ last.result.kind \in {"None", "Record", "Truncated", "Io", "Hang"}

\* C3 witness: a record was returned, and the next call, at the boundary,
\* got nothing and returned Truncated.
C3_Witness ==
    /\ at_boundary /\ returned # <<>>
    /\ last.result = Truncated /\ ~last.resumed

\* C4: the call that completes a 12-byte header whose stored checksum is
\* not the masked CRC of its 8 length bytes returns BadLengthCrc, with got
\* the computed checksum and want the little-endian stored value, whatever
\* follows the header and however its bytes were split over calls.
C4_BadLengthCrcCarriesBoth ==
    [][\A i \in 1..Len(written) :
          (CompletesHeader(i) /\ ~HeaderValid(written[i]))
              => /\ last'.result =
                        BadLengthCrc(compute(LengthBytes(written[i])),
                                     StoredLengthCrc(written[i]))
                 /\ pos' = ItemStart(i) + HEADER_LENGTH]_vars

\* C4 witness: BadLengthCrc came from a call that resumed a header, and
\* bytes follow that header in the stream.
C4_Witness ==
    /\ last.result.kind = "BadLengthCrc" /\ last.resumed
    /\ last.result.got # last.result.want
    /\ pos < Len(stream)

\* C5, as claimed: the call that completes a header with a matching checksum
\* whose length + 4 is no value of usize returns TooLarge with that length.
C5_TooLargeWhenUnrepresentable ==
    [][\A i \in 1..Len(written) :
          (CompletesHeader(i) /\ HeaderValid(written[i])
           /\ ~FitsUsize(read_u64(LengthBytes(written[i]))))
              => last'.result = TooLarge(read_u64(LengthBytes(written[i])))]_vars

\* C6, as claimed: every call completes, returning a record or one of the
\* typed errors; none panics or aborts.
C6_NoCallPanics ==
    last.result.kind \in
        {"None", "Record", "BadLengthCrc", "Truncated", "TooLarge", "Io"}

\* C7: an item with a valid header is returned whatever its payload and
\* trailing bytes are, with the payload and the trailing value as stored;
\* checksum() on it gives Ok when the trailing value is the masked CRC of the
\* payload, and otherwise ChecksumError with got the masked CRC computed over
\* the payload and want the trailing value. An item is returned unless the
\* allocator failed a request, which aborts the process (C6).
C7_PayloadCheckedOnlyByChecksum ==
    \A i \in 1..Len(written) :
        (Framed(written[i]) /\ FitsUsize(read_u64(LengthBytes(written[i]))))
        => /\ (pos >= ItemEnd(i) /\ last.result # Abort) => Len(returned) >= i
           /\ i <= Len(returned)
                  => /\ returned[i].data = StoredPayload(written[i])
                     /\ returned[i].data_crc = StoredDataCrc(written[i])
                     /\ checked[i] \in
                           {Unchecked,
                            IF compute(StoredPayload(written[i]))
                                   = StoredDataCrc(written[i])
                            THEN ChecksumOk
                            ELSE ChecksumError(compute(StoredPayload(written[i])),
                                               StoredDataCrc(written[i]))}

\* C7 witness: a record whose payload is not the one written and a record
\* whose trailing checksum is not the one written were both returned, and
\* checksum() has failed on both.
C7_Witness ==
    /\ Len(returned) = 2
    /\ ~WellFormed(written[1]) /\ ~WellFormed(written[2])
    /\ written[1] # written[2]
    /\ checked[1].kind = "ChecksumError" /\ checked[2].kind = "ChecksumError"

\* C8: after a call that returned a record the state equals a new one:
\* both buffers empty and no capacity reserved for data_plus_footer, so the
\* next call asks for a whole 12-byte header.
C8_StateIsNewAfterRecord ==
    last.result.kind = "Record" =>
        /\ state = new
        /\ NextWants = <<U64(HEADER_LENGTH)>>

\* C8 witness: a call has just returned a record with a payload.
C8_Witness ==
    /\ last.result.kind = "Record" /\ last.result.data # <<>>
    /\ Len(returned) = 2

\* C9: a checksum() call leaves every returned record as it was, and gives
\* for a record what the call before on that record gave, whatever
\* read_record did in between.
C9_ChecksumPureAndIdempotent ==
    [][/\ Len(returned') = Len(returned) => returned' = returned
       /\ \A i \in 1..Len(returned) :
             /\ returned'[i] = returned[i]
             /\ checked[i] # Unchecked => checked'[i] = checked[i]]_vars

\* C9 witness: checksum() was called on both of two returned records, one
\* intact and one not.
C9_Witness ==
    /\ Len(returned) = 2
    /\ {checked[1].kind, checked[2].kind} = {"Ok", "ChecksumError"}

\* After a Truncated result the next call asks only for what the buffer in
\* progress still misses of its target.
AsksOnlyForMissing ==
    last.result = Truncated =>
        NextWants = <<IF Len(header) < HEADER_LENGTH
                      THEN U64(HEADER_LENGTH - Len(header))
                      ELSE Sub64(capacity, U64(Len(data_plus_footer)))>>

\* C10, as claimed: a call that returns Truncated appends every byte it
\* obtained to the one buffer that was being filled, leaves the other
\* buffer and both target sizes as they were, and the next call asks only
\* for what that buffer still misses.
C10_TruncatedTouchesOneBuffer ==
    /\ []AsksOnlyForMissing
    /\ [][TruncatedCall =>
             LET obtained == SubSeq(stream, pos + 1, pos')
             IN  /\ capacity' = capacity
                 /\ IF Len(header) < HEADER_LENGTH
                    THEN /\ header' = header \o obtained
                         /\ data_plus_footer' = data_plus_footer
                    ELSE /\ data_plus_footer' = data_plus_footer \o obtained
                         /\ header' = header]_vars

\* C10, amended: a call that returns Truncated keeps every byte it obtained,
\* in stream order, after the bytes held before: in the header up to its 12
\* bytes, and the rest in data_plus_footer. A call that does not complete
\* the header leaves data_plus_footer and its target as they were; a call
\* that completes it sets the target to the length + 4 the code computes,
\* which is (length + 4) mod 2^64 as usize: length + 4 itself but for the
\* lengths from 2^64 - 4 in a build without overflow checks (C5); a call
\* that starts with a complete header leaves header and target as they
\* were. The next call asks only for what the buffer in progress still
\* misses.
C10_TruncatedKeepsPosition ==
    /\ []AsksOnlyForMissing
    /\ [][TruncatedCall =>
             LET obtained == SubSeq(stream, pos + 1, pos')
                 sum == Sum64(read_u64(SubSeq(header', 1, LENGTH_CRC_OFFSET)),
                              FOOTER_LENGTH)
             IN  /\ header' \o data_plus_footer'
                        = header \o data_plus_footer \o obtained
                 /\ Len(header) <= Len(header')
                 /\ Len(header') <= HEADER_LENGTH
                 /\ Len(header') < HEADER_LENGTH
                        => /\ data_plus_footer' = data_plus_footer
                           /\ capacity' = capacity
                 /\ Len(header) = HEADER_LENGTH => capacity' = capacity
                 /\ (Len(header) < HEADER_LENGTH /\ Len(header') = HEADER_LENGTH)
                        => capacity' =
                               as_usize(<<sum[1], sum[2], sum[3], sum[4]>>, build)]_vars

\* C10 witness: a call that started at a record boundary returned Truncated
\* with the header complete and part of the payload read.
C10_Witness ==
    /\ last.result = Truncated /\ ~last.resumed
    /\ Len(header) = HEADER_LENGTH
    /\ data_plus_footer # <<>>

\* The payload target the code computes from a complete header: length + 4
\* in u64 arithmetic, as usize.
TargetOf(h) ==
    LET sum == Sum64(read_u64(SubSeq(h, 1, LENGTH_CRC_OFFSET)), FOOTER_LENGTH)
    IN  as_usize(<<sum[1], sum[2], sum[3], sum[4]>>, build)

\* C11: between calls the header holds at most 12 bytes; data_plus_footer
\* holds bytes or has a non-zero target only while the header holds 12 bytes
\* whose length checksum matches; that target is the length + 4 the code
\* computed from the header, and data_plus_footer is never longer than it.
\* So at most one of the two buffers is partly filled.
C11_OneAccumulatorInProgress ==
    /\ Len(header) <= HEADER_LENGTH
    /\ (data_plus_footer # <<>> \/ capacity # U64(0))
           => /\ Len(header) = HEADER_LENGTH
              /\ HeaderValid(header)
              /\ capacity = TargetOf(header)
    /\ ~Less64(capacity, U64(Len(data_plus_footer)))
    /\ (0 < Len(header) /\ Len(header) < HEADER_LENGTH)
           => ~(0 < Len(data_plus_footer)
                /\ Less64(U64(Len(data_plus_footer)), capacity))

\* C11 witness: the header is complete and the payload is partly read.
C11_Witness ==
    /\ Len(header) = HEADER_LENGTH
    /\ data_plus_footer # <<>>
    /\ Less64(U64(Len(data_plus_footer)), capacity)
    /\ last.resumed

\* C12, as claimed: a read_record call on a state whose latest call returned
\* BadLengthCrc or TooLarge returns one of the typed errors: it does not
\* panic and it returns no record.
C12_TypedResultAfterRejection ==
    [][(last.result.kind \in {"BadLengthCrc", "TooLarge"} /\ last' # last)
           => last'.result.kind \in {"BadLengthCrc", "Truncated", "TooLarge", "Io"}]_vars

RECURSIVE WireSize(_)
\* The bytes the records take in the stream: header, payload and footer of
\* each.
WireSize(records) ==
    IF records = <<>> THEN 0
    ELSE HEADER_LENGTH + Len(Head(records).data) + FOOTER_LENGTH
             + WireSize(Tail(records))

\* C13: the bytes consumed from the source are those of the records returned
\* so far, header and footer included, followed by the bytes the two buffers
\* hold, which are the latest bytes consumed, in order. So a call that
\* returned a record leaves the source right after that record's footer, and
\* a call that returned BadLengthCrc or TooLarge has consumed the 12 header
\* bytes of the rejected item and nothing after them.
C13_ConsumedIsReturnedPlusHeld ==
    LET held == header \o data_plus_footer
    IN  /\ pos = WireSize(returned) + Len(held)
        /\ held = SubSeq(stream, pos - Len(held) + 1, pos)
        /\ last.result.kind = "Record"
               => /\ pos = WireSize(returned)
                  /\ pos = ItemEnd(Len(returned))
        /\ last.result.kind \in {"BadLengthCrc", "TooLarge"}
               => /\ pos = WireSize(returned) + HEADER_LENGTH
                  /\ pos = ItemStart(Len(returned) + 1) + HEADER_LENGTH

\* C13 witness: after a record was returned, the header of the next item was
\* rejected by a call that resumed it, with bytes left in the stream.
C13_Witness ==
    /\ returned # <<>>
    /\ last.result.kind \in {"BadLengthCrc", "TooLarge"}
    /\ last.resumed
    /\ pos < Len(stream)

\* Where the i-th returned record starts in the stream.
RecordStart(i) == WireSize(SubSeq(returned, 1, i - 1))

\* C14: the payload of a returned record is the bytes that follow its
\* 12-byte header in the stream, as many as the little-endian length field of
\* that header says (none when it says 0), and its expected checksum is the
\* little-endian value of the 4 bytes after the payload.
C14_PayloadAndChecksumAsFramed ==
    \A i \in 1..Len(returned) :
        LET start  == RecordStart(i)
            length == read_u64(SubSeq(stream, start + 1, start + LENGTH_CRC_OFFSET))
            n      == Len(returned[i].data)
        IN  /\ U64(n) = length
            /\ returned[i].data =
                   SubSeq(stream, start + HEADER_LENGTH + 1, start + HEADER_LENGTH + n)
            /\ returned[i].data_crc =
                   read_u32(SubSeq(stream, start + HEADER_LENGTH + n + 1,
                                   start + HEADER_LENGTH + n + FOOTER_LENGTH))

\* C14 witness: a record with a payload and a record with none were
\* returned, the latter by a call that resumed it.
C14_Witness ==
    /\ Len(returned) = 2
    /\ returned[1].data # <<>> /\ returned[2].data = <<>>
    /\ last.result.kind = "Record" /\ last.resumed

\* A source that yields avail bytes to the next call yields the rest of the
\* header in progress and the length + 4 bytes after it.
SuppliesRecord(avail, hdr) ==
    LET need == Sum64(read_u64(SubSeq(hdr, 1, LENGTH_CRC_OFFSET)), FOOTER_LENGTH)
    IN  /\ need[3] = 0 /\ need[4] = 0 /\ need[5] = 0
        /\ avail - (HEADER_LENGTH - Len(header)) >= need[1] + Limb * need[2]

\* What the source may yield to a call that completes the header in
\* progress: the rest of the header and up to the longest payload and footer
\* a written record has. A source that yields more gives the same call.
CompletingReads ==
    {n \in (HEADER_LENGTH - Len(header))..
               (HEADER_LENGTH - Len(header) + MaxLen + FOOTER_LENGTH) :
        n <= Len(stream) - pos}

\* C15: a call that completes the header and finds it valid asks the source
\* for the payload, all of its target, in that same call (there is nothing
\* to ask for when the target is 0): when the source yields the length + 4
\* bytes that follow, the call returns the record; and it returns Truncated
\* only with data_plus_footer still below its target. The allocator is
\* taken to meet the requests of the call: a request it fails aborts the
\* process (C6).
C15_NoCallBoundaryBetweenPhases ==
    Len(header) < HEADER_LENGTH =>
        \A avail \in CompletingReads :
            \A h \in {header_phase(state, reader(avail, AtEnd), build, "None")} :
              h.result = Continue =>
                \A r \in {read_record(state, reader(avail, AtEnd), build, "None")} :
                    /\ h.st.capacity # U64(0)
                           => /\ Len(r.wants) = 2
                              /\ r.wants[2] = h.st.capacity
                    /\ SuppliesRecord(avail, h.st.header)
                           => /\ r.result.kind = "Record"
                              /\ r.rd.pos = pos + (HEADER_LENGTH - Len(header))
                                     + Len(r.result.data) + FOOTER_LENGTH
                    /\ r.result = Truncated
                           => Less64(U64(Len(r.st.data_plus_footer)), r.st.capacity)
                    /\ r.result.kind = "Record" => SuppliesRecord(avail, h.st.header)

\* C15 witness: one call that began with no byte of the header returned a
\* record with a payload.
C15_Witness ==
    /\ last.result.kind = "Record" /\ ~last.resumed
    /\ last.result.data # <<>>
    /\ Len(returned) = 2

\* A source that reports an error where another would report end of input
\* changes the result from Truncated to Io and nothing else; a call that
\* gets all it asks for never sees the error.
IoWhereTruncated ==
    \A avail \in 0..most, dry \in DryReports :
        Head(dry) # "Eof" =>
            \A t \in {read_record(state, reader(avail, AtEnd), build, "None")},
               f \in {read_record(state, reader(avail, dry), build, "None")} :
                /\ f.st = t.st
                /\ f.rd.pos = t.rd.pos
                /\ f.result = IF t.result = Truncated THEN Io ELSE t.result

\* After a call that returned Io (or Truncated), reading on from a working
\* source gives what one uninterrupted call on a fresh state gives for the
\* same item: the same result, state and position.
ResumesAsUninterrupted ==
    last.result \in {Io, Truncated} =>
        LET start == pos - Len(header) - Len(data_plus_footer)
            rest  == Len(stream) - pos
        IN  \A resumed \in {read_record(state, reader(rest, AtEnd), build, "None")},
               whole \in {read_record(new, [stream |-> stream, pos |-> start,
                                             avail |-> rest + pos - start,
                                             dry |-> AtEnd], build, "None")} :
                /\ resumed.result = whole.result
                /\ resumed.st = whole.st
                /\ resumed.rd.pos = whole.rd.pos

\* C16, as claimed: when the source reports an error in either phase, of
\* whatever kind, the call returns Io, not Truncated and not a record; the
\* bytes it obtained before the error are kept in the buffers, after those
\* held before; and a later call with a working source completes the item
\* with the result of an uninterrupted read.
C16_ErrorIsIoAndResumes ==
    /\ [](IoWhereTruncated /\ ResumesAsUninterrupted)
    /\ [][last'.result = Io =>
             /\ returned' = returned
             /\ header' \o data_plus_footer'
                    = header \o data_plus_footer \o SubSeq(stream, pos + 1, pos')
             /\ Len(header') < HEADER_LENGTH => data_plus_footer' = <<>>]_vars

\* The step is a read_record call that did something.
ReadRecordCall ==
    <<pos, header, data_plus_footer, capacity, last>>' #
        <<pos, header, data_plus_footer, capacity, last>>

\* C17: a read_record call, whatever it returns, leaves the payload and the
\* expected checksum of every record returned before it as they were: the
\* records so far stay a prefix of the records returned.
C17_ReturnedRecordsAreIndependent ==
    [][ReadRecordCall =>
          /\ Len(returned') >= Len(returned)
          /\ SubSeq(returned', 1, Len(returned)) = returned]_vars

\* C17 witness: after a record with a payload was returned, a later call on
\* the same state filled the buffers again and was rejected or truncated.
C17_Witness ==
    /\ Len(returned) = 1 /\ returned[1].data # <<>>
    /\ last.result.kind \in {"BadLengthCrc", "Truncated"}
    /\ header # <<>>
    /\ last.resumed

\* ------------------------------------------------------------------------
\* Two TfRecordState values, each driven against a source of its own

\* Most read_record calls made on one of the two states.
MaxCalls == 2

\* The streams of the two sources: a well-formed record, and a record whose
\* length field was damaged.
TwoStreams == {record(LongestPayload), corrupt(record(LongestPayload), 1)}

\* The build both states run in.
TwoBuild == [usize_bits |-> 64, overflow_checks |-> TRUE]

\* One state and its source before the first call.
NewInstance(s) ==
    [stream |-> s, pos |-> 0, st |-> new, calls |-> <<>>, results |-> <<>>]

\* Which state was called last, and how often the caller changed, up to 2.
NoCaller == [latest |-> 0, changes |-> 0]

InitTwo ==
    /\ build = TwoBuild
    /\ written = <<>>
    /\ stream = <<>>
    /\ pos = 0
    /\ header = new.header
    /\ data_plus_footer = new.data_plus_footer
    /\ capacity = new.capacity
    /\ last = [result |-> NoResult, resumed |-> FALSE]
    /\ returned = <<>>
    /\ checked = <<>>
    /\ masking = <<>>
    /\ \E s1 \in TwoStreams, s2 \in TwoStreams :
          instances = <<NewInstance(s1), NewInstance(s2), NoCaller>>

\* What the source of an instance may yield to one call: nothing, the rest
\* of a header, or all that is left, and then the end or an error; a source
\* that yields nothing and reports Interrupted for good; and a source that
\* yields all that is left to a call whose reserve_exact the allocator fails.
ReadsOf(inst) ==
    LET rest == Len(inst.stream) - inst.pos
    IN  {[avail |-> a, dry |-> d, alloc_fails |-> "None"] :
            a \in {0, IF rest < HEADER_LENGTH THEN rest ELSE HEADER_LENGTH, rest},
            d \in {AtEnd, <<"Error">>}}
        \cup {[avail |-> 0, dry |-> <<"Interrupted">>, alloc_fails |-> "None"],
              [avail |-> rest, dry |-> AtEnd, alloc_fails |-> "reserve_exact"]}

\* No call on either state has ended the program.
NoneEnded ==
    \A j \in 1..2 : \A k \in 1..Len(instances[j].results) :
        instances[j].results[k].kind \notin {"Panic", "Abort", "Hang"}

\* The instance after one call with the read rd_in, and the caller noted.
Called(inst, r, rd_in) ==
    [inst EXCEPT !.pos = r.rd.pos, !.st = r.st,
                 !.calls = Append(@, rd_in),
                 !.results = Append(@, r.result)]
CallerAfter(i) ==
    [latest |-> i,
     changes |-> IF instances[3].latest \in {0, i} \/ instances[3].changes = 2
                 THEN instances[3].changes
                 ELSE instances[3].changes + 1]

\* Mutant of ReadRecordOf: the header buffer is one for the whole process, so
\* a call on one state leaves its header in the other state too.
ReadRecordOf_shared_header(i) ==
    /\ NoneEnded
    /\ Len(instances[i].calls) < MaxCalls
    /\ \E rd_in \in ReadsOf(instances[i]) :
          \E r \in {read_record(instances[i].st,
                                [stream |-> instances[i].stream,
                                 pos |-> instances[i].pos,
                                 avail |-> rd_in.avail, dry |-> rd_in.dry],
                                build, rd_in.alloc_fails)} :
              instances' =
                  [j \in 1..3 |->
                      IF j = i THEN Called(instances[i], r, rd_in)
                      ELSE IF j = 3 THEN CallerAfter(i)
                      ELSE [instances[j] EXCEPT !.st.header = r.st.header]]
    /\ UNCHANGED <<build, written, stream, pos, header, data_plus_footer,
                   capacity, last, returned, checked, masking>>

\* One call instances[i].st.read_record(&mut its reader).
ReadRecordOf(i) ==
    /\ NoneEnded
    /\ Len(instances[i].calls) < MaxCalls
    /\ \E rd_in \in ReadsOf(instances[i]) :
          \E r \in {read_record(instances[i].st,
                                [stream |-> instances[i].stream,
                                 pos |-> instances[i].pos,
                                 avail |-> rd_in.avail, dry |-> rd_in.dry],
                                build, rd_in.alloc_fails)} :
              instances' =
                  [j \in 1..3 |->
                      IF j = i THEN Called(instances[i], r, rd_in)
                      ELSE IF j = 3 THEN CallerAfter(i)
                      ELSE instances[j]]
    /\ UNCHANGED <<build, written, stream, pos, header, data_plus_footer,
                   capacity, last, returned, checked, masking>>

ReadRecordFirst == ReadRecordOf(1)
ReadRecordSecond == ReadRecordOf(2)

NextTwo == ReadRecordFirst \/ ReadRecordSecond

SpecTwo == InitTwo /\ [][NextTwo]_vars

RECURSIVE DrivenAlone(_, _, _, _)
\* The results of the calls, in order, on a state st whose source has
\* handed out p bytes of s, with nothing else running.
DrivenAlone(st, s, p, calls) ==
    IF calls = <<>> THEN <<>>
    ELSE LET r == read_record(st, [stream |-> s, pos |-> p,
                                   avail |-> Head(calls).avail,
                                   dry |-> Head(calls).dry],
                             build, Head(calls).alloc_fails)
         IN  <<r.result>> \o DrivenAlone(r.st, s, r.rd.pos, Tail(calls))

\* C18: with two states driven against a source each, under every
\* interleaving of the calls, the results each state has given are those it
\* gives for the same reads when it is driven alone.
C18_InstancesDoNotInterfere ==
    \A i \in 1..2 :
        instances[i].results =
            DrivenAlone(new, instances[i].stream, 0, instances[i].calls)

\* C18 witness: the calls on the two states alternated, one state has
\* returned the record of its stream in two calls and the other has rejected
\* the header of its stream.
C18_Witness ==
    /\ instances[3].changes = 2
    /\ \E i \in 1..2 :
          /\ Len(instances[i].results) = 2
          /\ instances[i].results[1] = Truncated
          /\ instances[i].results[2].kind = "Record"
          /\ instances[3 - i].results # <<>>
          /\ instances[3 - i].results[Len(instances[3 - i].results)].kind
                 = "BadLengthCrc"

\* ------------------------------------------------------------------------
\* The masking permutation on its own

\* u32::wrapping_sub
wrapping_sub(x, y) ==
    LET d0 == x[1] - y[1]
        b0 == IF d0 < 0 THEN 1 ELSE 0
        d1 == x[2] - y[2] - b0
    IN  <<d0 % Limb, d1 % Limb>>

\* (x << 15) | (x >> 17): rotate left by 15 bits
rotate_left_15(x) ==
    <<(x[1] % 2) * 32768 + x[2] \div 2,
      (x[2] % 2) * 32768 + x[1] \div 2>>

\* The inverse the specification gives for mask: subtract the constant
\* modulo 2^32, then rotate left by 15 bits.
unmask(masked) == rotate_left_15(wrapping_sub(masked, CRC_MASK_DELTA))

\* How far the sampled halves of a raw CRC spread around 0, 2^15 and 2^16.
MaskSpread == 2

\* The raw CRCs masked: both 16-bit halves near 0, near 2^15 and near 2^16.
SampleLimbs ==
    (0..MaskSpread) \cup ((32768 - MaskSpread)..(32767 + MaskSpread))
        \cup ((Limb - 1 - MaskSpread)..(Limb - 1))
RawCrcs == SampleLimbs \X SampleLimbs

NotMasked == <<>>

InitMask ==
    /\ build = TwoBuild
    /\ written = <<>>
    /\ stream = <<>>
    /\ pos = 0
    /\ header = new.header
    /\ data_plus_footer = new.data_plus_footer
    /\ capacity = new.capacity
    /\ last = [result |-> NoResult, resumed |-> FALSE]
    /\ returned = <<>>
    /\ checked = <<>>
    /\ instances = <<>>
    /\ \E raw \in RawCrcs :
          masking = [raw |-> raw, masked |-> NotMasked, unmasked |-> NotMasked]

\* mask(raw)
Mask ==
    /\ masking.masked = NotMasked
    /\ masking' = [masking EXCEPT !.masked = mask(masking.raw)]
    /\ UNCHANGED <<build, written, stream, pos, header, data_plus_footer,
                   capacity, last, returned, checked, instances>>

\* The masked value taken back through the inverse.
Unmask ==
    /\ masking.masked # NotMasked
    /\ masking.unmasked = NotMasked
    /\ masking' = [masking EXCEPT !.unmasked = unmask(masking.masked)]
    /\ UNCHANGED <<build, written, stream, pos, header, data_plus_footer,
                   capacity, last, returned, checked, instances>>

NextMask == Mask \/ Unmask

SpecMask == InitMask /\ [][NextMask]_vars

\* C19: mask gives a 32-bit value for every raw CRC (the addition wraps),
\* different raw CRCs give different masked values, and subtracting the
\* constant modulo 2^32 and rotating left by 15 gives the raw CRC back.
C19_MaskIsBijection ==
    /\ masking.masked # NotMasked
           => /\ masking.masked \in (0..(Limb - 1)) \X (0..(Limb - 1))
              /\ \A other \in RawCrcs :
                    other # masking.raw => mask(other) # masking.masked
    /\ masking.unmasked # NotMasked => masking.unmasked = masking.raw

\* C19 witness: a raw CRC whose rotated value plus the constant passes 2^32
\* was masked and recovered.
C19_Witness ==
    /\ masking.unmasked # NotMasked
    /\ masking.unmasked = masking.raw
    /\ masking.masked[2] < CRC_MASK_DELTA[2]
    /\ masking.raw[2] >= 32768

====
